---- MODULE Spec2Model ----
(***************************************************************************)
(* Screen-time accounting and session-completion pipeline of the          *)
(* guardian-monitored gaming platform (backend/routes/child.js,            *)
(* backend/routes/guardian.js, models/ChildProfile, GameSession,           *)
(* SeriousGame, KnowledgePointsTransaction, TimeUsageLog).                 *)
(*                                                                         *)
(* Every HTTP request is a process that runs one route handler.  A handler *)
(* is cut at its storage awaits: one action is one storage operation       *)
(* together with the synchronous code that leads to it.  A Mongoose        *)
(* document is a private copy of the stored record; save() writes the      *)
(* paths whose value was changed on the copy ($set of the new value, $push *)
(* for an array push) and nothing else.                                    *)
(*                                                                         *)
(* Time: `now' counts ticks of 20 seconds (TicksPerMinute = 3), `today'    *)
(* is the calendar day Date.prototype.toDateString() yields for the        *)
(* current instant.  A stored lastTimeReset is kept as its calendar day,   *)
(* the only part of it the code ever reads.                                *)
(***************************************************************************)
EXTENDS Integers, Sequences, FiniteSets, TLC

\* ------------------------------------------------------------------ bounds
MaxTicks == 1
MaxDay == 1
MaxSessions == 4
MaxFail == 1
MaxReqs == 2
MaxMsgs == 2

\* ------------------------------------------------------- program constants
TicksPerMinute == 3
DefaultTimeLimit == 60
MinTimeLimit == 15
MaxTimeLimit == 240
MinExtraMinutes == 5
MaxExtraMinutes == 60
RetentionDays == 90
MinutesPerDay == 1440

\* ------------------------------------------------------------- input sets
Children == {"c1"}
Guardians == {"g1"}
Games == {"math", "retired", "teens"}
Reqs == {1, 2}
TickSteps == {1, 7}
Scores == {10}
Badges == {"none", "star"}
LimitInputs == {10, 240}
AllowedInputs == {{"math"}, {"teens"}}
ExtraInputs == {4, 60}

VARIABLES now, today, nTicks, nFail, nReqs, profile, sessions, games,
          ledger, usageLog, req, snap,
          dictionary, messages, alerts, notifs, chat

vars == <<now, today, nTicks, nFail, nReqs, profile, sessions, games,
          ledger, usageLog, req, snap,
          dictionary, messages, alerts, notifs, chat>>

\* the stored collections
Store ==
    [profile |-> profile, sessions |-> sessions, games |-> games,
     ledger |-> ledger, usageLog |-> usageLog, alerts |-> alerts,
     notifs |-> notifs, dictionary |-> dictionary]

\* the collections of the chat monitor and the chat message being saved
Monitor == <<dictionary, messages, alerts, notifs, chat>>

\* --------------------------------------------------------------- helpers
RECURSIVE SumPoints(_, _)
SumPoints(log, c) ==
    IF log = <<>> THEN 0
    ELSE (IF Head(log).childId = c THEN Head(log).points ELSE 0)
         + SumPoints(Tail(log), c)

\* The ledger and the usage log carry, besides the fields of the stored
\* documents, the session on whose behalf the entry was written (sid): the
\* code stores no such field, it is kept here to state the contracts.
RECURSIVE SumMinutes(_, _)
SumMinutes(log, c) ==
    IF log = <<>> THEN 0
    ELSE (IF Head(log).childId = c THEN Head(log).durationMinutes ELSE 0)
         + SumMinutes(Tail(log), c)

RECURSIVE SumMinutesOn(_, _, _)
SumMinutesOn(log, c, day) ==
    IF log = <<>> THEN 0
    ELSE (IF Head(log).childId = c /\ Head(log).date = day
          THEN Head(log).durationMinutes ELSE 0)
         + SumMinutesOn(Tail(log), c, day)

SeqContains(s, x) == \E i \in 1..Len(s) : s[i] = x

\* Math.round(n / d) and Math.ceil(n / d) for n >= 0, d > 0
MathRound(n, d) == (2 * n + d) \div (2 * d)
MathCeil(n, d) == (n + d - 1) \div d

\* ChildProfile document as created by POST /children/create.  Besides the
\* stored fields the record carries `extended': the day on which the limit
\* in force was raised by add-time, -1 when the limit in force was set at
\* creation or by a time-limit or settings update.  The code stores no such
\* field, it is kept here to state the contract of the extension.
NewProfile(age, day) ==
    [ageGroup |-> age, knowledgePoints |-> 0, achievements |-> <<>>,
     timeLimitMinutes |-> DefaultTimeLimit, timeUsedToday |-> 0,
     lastTimeReset |-> day, allowedGames |-> {}, totalGamesPlayed |-> 0,
     totalTimeSpent |-> 0, extended |-> -1]

\* SeriousGame documents of the catalogue
NewGame(active, ages) ==
    [isActive |-> active, appropriateAgeGroups |-> ages,
     totalPlays |-> 0, avgNum |-> 0, avgDen |-> 1]

\* GameSession document as created by GameSession.create in the start route
NewSession(c, g, t) ==
    [childId |-> c, gameId |-> g, startTime |-> t, endTime |-> -1,
     scoreRaw |-> 0, kpEarned |-> 0, badgeEarned |-> "none",
     isCompleted |-> FALSE]

NoSession == NewSession("nobody", "nogame", -1)
NoProfile == NewProfile("none", -1)
NoGame == NewGame(FALSE, {})
NoStatus == [known |-> FALSE, allowed |-> FALSE, timeRemaining |-> 0,
             timeLimitMinutes |-> 0, timeUsedToday |-> 0, asOf |-> -1, at |-> -1]
\* what a response shows of one child's time record: asOf is the
\* lastTimeReset day of the document the values were taken from, at is the
\* calendar day on which they were taken
NoView == [timeUsedToday |-> -1, timeLimitMinutes |-> -1, asOf |-> -1, at |-> -1]
NoViews == [c \in Children |-> NoView]
NoResp == [status |-> 0, timeUsedToday |-> -1, timeRemaining |-> -1,
           timeLimitMinutes |-> -1, knowledgePoints |-> -1,
           durationMinutes |-> -1, sessionId |-> 0, asOf |-> -1, at |-> -1,
           views |-> NoViews]
\* given: the optional fields the body of a settings request carries
NoArg == [child |-> "nobody", game |-> "nogame", sid |-> 0, score |-> 0,
          badge |-> "none", minutes |-> 0, given |-> {}, allowed |-> {},
          alert |-> 0, keyword |-> <<>>, severity |-> "none",
          category |-> "none", entry |-> 0]

\* A loaded Mongoose document: the copy, the paths modified on it since it
\* was loaded or saved, and a pending achievements.push
Handle(doc) == [doc |-> doc, dirty |-> {}, push |-> "none"]
NoHandle == Handle(NoProfile)

NoHandles == [c \in Children |-> NoHandle]

IdleReq ==
    [op |-> "none", pc |-> "idle", user |-> "nobody", arg |-> NoArg,
     day0 |-> -1,
     prof |-> NoHandle, profs |-> NoHandles, sess |-> NoSession, game |-> NoGame,
     ts |-> NoStatus, dur |-> 0, didReset |-> FALSE, resp |-> NoResp]

InFlight(r) == req[r].pc \notin {"idle", "done"}
Quiet == \A r \in Reqs : req[r].pc = "idle"

\* A response is read as soon as it is sent: while a finished request waits
\* to be released nothing else happens.
NoneDone == \A r \in Reqs : req[r].pc # "done"
At(r, pc) == NoneDone /\ req[r].pc = pc

\* ------------------------------------------------- Mongoose document model
\* doc.path = v : the path becomes modified only when the value changes
SetPath(h, f, v) ==
    [h EXCEPT !.doc = [h.doc EXCEPT ![f] = v],
              !.dirty = IF h.doc[f] = v THEN h.dirty ELSE h.dirty \cup {f}]

\* fault variant of save(): no validator runs
ValidProfileAny(h) == TRUE

\* schema validators that save() runs on the modified paths
ValidProfile(h) ==
    /\ "knowledgePoints" \in h.dirty => h.doc.knowledgePoints >= 0
    /\ "timeUsedToday" \in h.dirty => h.doc.timeUsedToday >= 0
    /\ "timeLimitMinutes" \in h.dirty =>
          /\ h.doc.timeLimitMinutes >= MinTimeLimit
          /\ h.doc.timeLimitMinutes <= MaxTimeLimit

\* the stored record after doc.save(): $set of the modified paths, $push of
\* a pushed achievement, every other path as stored
Saved(stored, h) ==
    [f \in DOMAIN stored |->
        IF f = "achievements"
        THEN (IF h.push = "none" THEN stored[f] ELSE Append(stored[f], h.push))
        ELSE IF f \in h.dirty THEN h.doc[f] ELSE stored[f]]

\* the handle after a successful save()
Clean(h) == [h EXCEPT !.dirty = {}, !.push = "none"]

\* ------------------------------------------------------ ChildProfile model
\* resetDailyTime: now.toDateString() !== lastReset.toDateString()
NeedsReset(doc, day) == doc.lastTimeReset # day

\* fault variant of resetDailyTime: the date is renewed, the counter is kept
ResetKeepsUsed(h, day) ==
    IF NeedsReset(h.doc, day) THEN SetPath(h, "lastTimeReset", day) ELSE h

\* resetDailyTime: the assignments made on the document before save()
ResetDailyTime(h, day) ==
    IF NeedsReset(h.doc, day)
    THEN SetPath(SetPath(h, "timeUsedToday", 0), "lastTimeReset", day)
    ELSE h

\* checkTimeLimit: the status computed from the (reset) document
TimeRemaining(doc) == doc.timeLimitMinutes - doc.timeUsedToday

TimeStatus(doc, day) ==
    [known |-> TRUE, allowed |-> TimeRemaining(doc) > 0,
     timeRemaining |-> TimeRemaining(doc),
     timeLimitMinutes |-> doc.timeLimitMinutes,
     timeUsedToday |-> doc.timeUsedToday,
     asOf |-> doc.lastTimeReset, at |-> day]

\* addPoints: this.knowledgePoints += points
AddPoints(h, points) ==
    SetPath(h, "knowledgePoints", h.doc.knowledgePoints + points)

\* addAchievement: push unless the copy already includes it
AddAchievement(h, badge) ==
    IF SeqContains(h.doc.achievements, badge) THEN h
    ELSE [h EXCEPT !.doc.achievements = Append(h.doc.achievements, badge),
                   !.push = badge]

\* fault variant of addTimeUsed: timeUsedToday stops at the limit
AddTimeUsedClamped(h, minutes) ==
    SetPath(SetPath(h, "timeUsedToday",
                    IF h.doc.timeUsedToday + minutes > h.doc.timeLimitMinutes
                    THEN h.doc.timeLimitMinutes
                    ELSE h.doc.timeUsedToday + minutes),
            "totalTimeSpent", h.doc.totalTimeSpent + minutes)

\* addTimeUsed: both counters grow by the minutes
AddTimeUsed(h, minutes) ==
    SetPath(SetPath(h, "timeUsedToday", h.doc.timeUsedToday + minutes),
            "totalTimeSpent", h.doc.totalTimeSpent + minutes)

\* ------------------------------------------------------- GameSession model
\* virtual durationMinutes
DurationMinutes(s) ==
    IF s.endTime # -1 /\ s.startTime # -1
    THEN MathRound(s.endTime - s.startTime, TicksPerMinute)
    ELSE 0

\* the complete route: session.durationMinutes || Math.ceil((now - start)/60000)
LoggedDuration(s, t) ==
    IF DurationMinutes(s) # 0 THEN DurationMinutes(s)
    ELSE MathCeil(t - s.startTime, TicksPerMinute)

\* fault variant of complete(): isCompleted is left as it was
CompleteFieldsOpen(s, t, score, badge) ==
    [s EXCEPT !.endTime = t, !.scoreRaw = score, !.kpEarned = score,
              !.badgeEarned = badge]

\* complete(): the fields set on the session before save()
CompleteFields(s, t, score, badge) ==
    [s EXCEPT !.endTime = t, !.scoreRaw = score, !.kpEarned = score,
              !.badgeEarned = badge, !.isCompleted = TRUE]

\* ------------------------------------------------------- SeriousGame model
RECURSIVE Gcd(_, _)
Gcd(a, b) == IF b = 0 THEN a ELSE Gcd(b, a % b)

\* recordPlay: the running average, kept as the exact fraction avgNum/avgDen
RecordPlay(g, score) ==
    LET plays == g.totalPlays + 1
        num == g.avgNum * g.totalPlays + score * g.avgDen
        den == g.avgDen * plays
        k == IF num = 0 THEN den ELSE Gcd(num, den)
    IN [g EXCEPT !.totalPlays = plays, !.avgNum = num \div k,
                 !.avgDen = den \div k]

\* ------------------------------------------------------------ request steps
Me(r) == req[r]
Goto(r, rec) == req' = [req EXCEPT ![r] = rec]

\* res.status(code).json(...): the handler ends, its documents are dropped
Respond(q, resp) ==
    [q EXCEPT !.pc = "done", !.resp = resp, !.prof = NoHandle,
              !.profs = NoHandles, !.sess = NoSession, !.game = NoGame, !.dur = 0]

Status(code) == [NoResp EXCEPT !.status = code]

\* the profile fields the profile, children and login responses carry:
\* timeRemaining is Math.max(0, limit - used)
ProfileResp(code, doc, day) ==
    [NoResp EXCEPT !.status = code, !.asOf = doc.lastTimeReset, !.at = day,
                   !.timeUsedToday = doc.timeUsedToday,
                   !.timeLimitMinutes = doc.timeLimitMinutes,
                   !.timeRemaining = IF TimeRemaining(doc) > 0
                                     THEN TimeRemaining(doc) ELSE 0,
                   !.knowledgePoints = doc.knowledgePoints]

\* the body of the time-status response: checkTimeLimit's result
StatusResp(code, ts) ==
    [NoResp EXCEPT !.status = code, !.asOf = ts.asOf, !.at = ts.at,
                   !.timeUsedToday = ts.timeUsedToday,
                   !.timeLimitMinutes = ts.timeLimitMinutes,
                   !.timeRemaining = ts.timeRemaining]

\* where a child's request goes once authenticate called next()
Entry(op) ==
    CASE op = "profile" -> "p_load"
      [] op = "status" -> "ts_load"
      [] op = "start" -> "ts_load"
      [] op = "complete" -> "c_find"
      [] op = "extend" -> "x_create"

NewReq(op, user, arg, pc) ==
    [IdleReq EXCEPT !.op = op, !.user = user, !.arg = arg, !.pc = pc]

Frame == UNCHANGED <<now, today, nTicks, nFail, nReqs, snap, Monitor>>

\* a step of a guardian's request on the alerts
AlertFrame ==
    UNCHANGED <<now, today, nTicks, nFail, nReqs, snap, profile, sessions,
                games, ledger, usageLog, dictionary, messages, notifs, chat>>

\* snap keeps the stored collections as they were when a request arrived
\* at a server with no other request in flight
Received ==
    /\ nReqs < MaxReqs
    /\ nReqs' = nReqs + 1
    /\ snap' = IF Quiet THEN Store ELSE snap
    /\ UNCHANGED <<now, today, nTicks, nFail, Monitor>>

\* ---- a child sends a request
\* a request is handled on the first free slot
FreeSlot(r) ==
    /\ NoneDone
    /\ req[r].pc = "idle"
    /\ \A q \in Reqs : q < r => req[q].pc # "idle"

BeginChild(r, op, c, arg) ==
    /\ FreeSlot(r)
    /\ Goto(r, [NewReq(op, c, arg, "auth") EXCEPT !.day0 = today])
    /\ UNCHANGED <<profile, sessions, games, ledger, usageLog>>
    /\ Received

BeginProfile(r) == \E c \in Children : BeginChild(r, "profile", c, NoArg)

BeginStatus(r) == \E c \in Children : BeginChild(r, "status", c, NoArg)

StartsInFlight == Cardinality({q \in Reqs : req[q].op = "start" /\ InFlight(q)})

BeginStart(r) ==
    /\ Len(sessions) + StartsInFlight < MaxSessions
    /\ \E c \in Children, g \in Games :
          BeginChild(r, "start", c, [NoArg EXCEPT !.game = g])

BeginComplete(r) ==
    \E c \in Children, sid \in 1..(Len(sessions) + 1),
       score \in Scores, badge \in Badges :
        BeginChild(r, "complete", c,
                   [NoArg EXCEPT !.sid = sid, !.score = score, !.badge = badge])

\* ---- authenticate, child branch: findOne, then resetDailyTime
AuthLoad(r) ==
    /\ At(r, "auth")
    /\ LET h == ResetDailyTime(Handle(profile[Me(r).user]), today)
       IN IF h.dirty # {}
          THEN Goto(r, [Me(r) EXCEPT !.pc = "auth_save", !.prof = h])
          ELSE Goto(r, [Me(r) EXCEPT !.pc = Entry(Me(r).op)])
    /\ UNCHANGED <<profile, sessions, games, ledger, usageLog>>
    /\ Frame

AuthSave(r) ==
    /\ At(r, "auth_save")
    /\ profile' = [profile EXCEPT ![Me(r).user] = Saved(@, Me(r).prof)]
    /\ Goto(r, [Me(r) EXCEPT !.pc = Entry(Me(r).op), !.prof = NoHandle,
                              !.didReset = TRUE])
    /\ UNCHANGED <<sessions, games, ledger, usageLog>>
    /\ Frame

\* ---- GET /profile
ProfileLoad(r) ==
    /\ At(r, "p_load")
    /\ LET h == ResetDailyTime(Handle(profile[Me(r).user]), today)
       IN IF h.dirty # {}
          THEN Goto(r, [Me(r) EXCEPT !.pc = "p_save", !.prof = h])
          ELSE Goto(r, Respond(Me(r), ProfileResp(200, h.doc, today)))
    /\ UNCHANGED <<profile, sessions, games, ledger, usageLog>>
    /\ Frame

ProfileSave(r) ==
    /\ At(r, "p_save")
    /\ profile' = [profile EXCEPT ![Me(r).user] = Saved(@, Me(r).prof)]
    /\ Goto(r, Respond([Me(r) EXCEPT !.didReset = TRUE],
                       ProfileResp(200, Me(r).prof.doc, Me(r).prof.doc.lastTimeReset)))
    /\ UNCHANGED <<sessions, games, ledger, usageLog>>
    /\ Frame

\* ---- checkTimeLimit, called by GET /time-status and by checkScreenTime
AfterStatus(q, ts) ==
    IF q.op = "status" THEN Respond(q, StatusResp(200, ts))
    ELSE IF ~ts.allowed
         THEN Respond(q, [StatusResp(403, ts) EXCEPT !.timeRemaining = 0])
         ELSE [q EXCEPT !.pc = "s_game", !.ts = ts, !.prof = NoHandle]

StatusLoad(r) ==
    /\ At(r, "ts_load")
    /\ LET h == ResetDailyTime(Handle(profile[Me(r).user]), today)
       IN IF h.dirty # {}
          THEN Goto(r, [Me(r) EXCEPT !.pc = "ts_save", !.prof = h])
          ELSE Goto(r, AfterStatus(Me(r), TimeStatus(h.doc, today)))
    /\ UNCHANGED <<profile, sessions, games, ledger, usageLog>>
    /\ Frame

StatusSave(r) ==
    /\ At(r, "ts_save")
    /\ profile' = [profile EXCEPT ![Me(r).user] = Saved(@, Me(r).prof)]
    /\ Goto(r, AfterStatus([Me(r) EXCEPT !.didReset = TRUE],
                           TimeStatus(Me(r).prof.doc, Me(r).prof.doc.lastTimeReset)))
    /\ UNCHANGED <<sessions, games, ledger, usageLog>>
    /\ Frame

\* ---- POST /games/:gameId/start, after checkScreenTime called next()
StartGame(r) ==
    /\ At(r, "s_game")
    /\ LET g == games[Me(r).arg.game]
       IN IF ~g.isActive
          THEN Goto(r, Respond(Me(r), Status(404)))
          ELSE Goto(r, [Me(r) EXCEPT !.pc = "s_prof", !.game = g])
    /\ UNCHANGED <<profile, sessions, games, ledger, usageLog>>
    /\ Frame

AgeAllowed(g, doc) == doc.ageGroup \in g.appropriateAgeGroups

StartProfile(r) ==
    /\ At(r, "s_prof")
    /\ LET doc == profile[Me(r).user]
       IN IF ~AgeAllowed(Me(r).game, doc)
          THEN Goto(r, Respond(Me(r), Status(403)))
          ELSE Goto(r, [Me(r) EXCEPT !.pc = "s_create"])
    /\ UNCHANGED <<profile, sessions, games, ledger, usageLog>>
    /\ Frame

StartCreate(r) ==
    /\ At(r, "s_create")
    /\ sessions' = Append(sessions, NewSession(Me(r).user, Me(r).arg.game, now))
    /\ Goto(r, Respond(Me(r),
              [Status(201) EXCEPT !.sessionId = Len(sessions) + 1,
                                  !.timeRemaining = Me(r).ts.timeRemaining]))
    /\ UNCHANGED <<profile, games, ledger, usageLog>>
    /\ Frame

\* ---- POST /games/session/:sessionId/complete
\* fault variant of the owner check: any child may complete the session
OwnedByAnyone(session, user) == TRUE

\* session.childId.toString() === req.user._id.toString()
OwnedBy(session, user) == session.childId = user

CompleteFind(r) ==
    /\ At(r, "c_find")
    /\ LET sid == Me(r).arg.sid
       IN IF sid \notin 1..Len(sessions)
          THEN Goto(r, Respond(Me(r), Status(404)))
          ELSE IF ~OwnedBy(sessions[sid], Me(r).user)
          THEN Goto(r, Respond(Me(r), Status(403)))
          ELSE IF sessions[sid].isCompleted
          THEN Goto(r, Respond(Me(r), Status(400)))
          ELSE Goto(r, [Me(r) EXCEPT !.pc = "c_sess", !.sess = sessions[sid]])
    /\ UNCHANGED <<profile, sessions, games, ledger, usageLog>>
    /\ Frame

\* session.complete(): set the fields, save the session
CompleteSession(r) ==
    /\ At(r, "c_sess")
    /\ LET s == CompleteFields(Me(r).sess, now, Me(r).arg.score, Me(r).arg.badge)
       IN /\ sessions' = [sessions EXCEPT ![Me(r).arg.sid] = s]
          /\ Goto(r, [Me(r) EXCEPT !.pc = "c_prof", !.sess = s])
    /\ UNCHANGED <<profile, games, ledger, usageLog>>
    /\ Frame

\* ChildProfile.findOne, then addPoints up to its save()
CompleteProfile(r) ==
    /\ At(r, "c_prof")
    /\ Goto(r, [Me(r) EXCEPT !.pc = "c_points",
                 !.prof = AddPoints(Handle(profile[Me(r).user]), Me(r).sess.kpEarned)])
    /\ UNCHANGED <<profile, sessions, games, ledger, usageLog>>
    /\ Frame

CompletePoints(r) ==
    /\ At(r, "c_points")
    /\ profile' = [profile EXCEPT ![Me(r).user] = Saved(@, Me(r).prof)]
    /\ Goto(r, [Me(r) EXCEPT !.pc = "c_tx", !.prof = Clean(@)])
    /\ UNCHANGED <<sessions, games, ledger, usageLog>>
    /\ Frame

\* KnowledgePointsTransaction.create, then addAchievement up to its save()
\* or, when nothing is pushed, totalGamesPlayed += 1 up to its save()
CompleteTransaction(r) ==
    /\ At(r, "c_tx")
    /\ ledger' = Append(ledger, [childId |-> Me(r).user,
                                 points |-> Me(r).sess.kpEarned,
                                 reason |-> Me(r).sess.gameId,
                                 sid |-> Me(r).arg.sid])
    /\ LET h == IF Me(r).arg.badge = "none" THEN Me(r).prof
                ELSE AddAchievement(Me(r).prof, Me(r).arg.badge)
       IN IF h.push # "none"
          THEN Goto(r, [Me(r) EXCEPT !.pc = "c_badge", !.prof = h])
          ELSE Goto(r, [Me(r) EXCEPT !.pc = "c_played",
                 !.prof = SetPath(h, "totalGamesPlayed", h.doc.totalGamesPlayed + 1)])
    /\ UNCHANGED <<profile, sessions, games, usageLog>>
    /\ Frame

CompleteBadge(r) ==
    /\ At(r, "c_badge")
    /\ profile' = [profile EXCEPT ![Me(r).user] = Saved(@, Me(r).prof)]
    /\ Goto(r, [Me(r) EXCEPT !.pc = "c_played",
                 !.prof = SetPath(Clean(@), "totalGamesPlayed",
                                  @.doc.totalGamesPlayed + 1)])
    /\ UNCHANGED <<sessions, games, ledger, usageLog>>
    /\ Frame

CompletePlayed(r) ==
    /\ At(r, "c_played")
    /\ profile' = [profile EXCEPT ![Me(r).user] = Saved(@, Me(r).prof)]
    /\ Goto(r, [Me(r) EXCEPT !.pc = "c_game", !.prof = NoHandle])
    /\ UNCHANGED <<sessions, games, ledger, usageLog>>
    /\ Frame

\* SeriousGame.findById, then recordPlay up to its save()
CompleteGame(r) ==
    /\ At(r, "c_game")
    /\ Goto(r, [Me(r) EXCEPT !.pc = "c_stats",
                 !.game = RecordPlay(games[Me(r).sess.gameId], Me(r).arg.score)])
    /\ UNCHANGED <<profile, sessions, games, ledger, usageLog>>
    /\ Frame

CompleteStats(r) ==
    /\ At(r, "c_stats")
    /\ games' = [games EXCEPT ![Me(r).sess.gameId] =
                    [@ EXCEPT !.totalPlays = Me(r).game.totalPlays,
                              !.avgNum = Me(r).game.avgNum,
                              !.avgDen = Me(r).game.avgDen]]
    /\ Goto(r, [Me(r) EXCEPT !.pc = "c_prof2", !.game = NoGame,
                 !.dur = LoggedDuration(Me(r).sess, now)])
    /\ UNCHANGED <<profile, sessions, ledger, usageLog>>
    /\ Frame

\* back in the route: findOne again, then addTimeUsed up to its save()
CompleteProfile2(r) ==
    /\ At(r, "c_prof2")
    /\ Goto(r, [Me(r) EXCEPT !.pc = "c_time",
                 !.prof = AddTimeUsed(Handle(profile[Me(r).user]), Me(r).dur),
                 !.resp = [NoResp EXCEPT
                              !.asOf = profile[Me(r).user].lastTimeReset,
                              !.at = today]])
    /\ UNCHANGED <<profile, sessions, games, ledger, usageLog>>
    /\ Frame

CompleteTime(r) ==
    /\ At(r, "c_time")
    /\ profile' = [profile EXCEPT ![Me(r).user] = Saved(@, Me(r).prof)]
    /\ Goto(r, [Me(r) EXCEPT !.pc = "c_log", !.prof = NoHandle])
    /\ UNCHANGED <<sessions, games, ledger, usageLog>>
    /\ Frame

CompleteLog(r) ==
    /\ At(r, "c_log")
    /\ usageLog' = Append(usageLog, [childId |-> Me(r).user,
                                     durationMinutes |-> Me(r).dur,
                                     gameId |-> Me(r).sess.gameId,
                                     date |-> today,
                                     sid |-> Me(r).arg.sid])
    /\ Goto(r, [Me(r) EXCEPT !.pc = "c_final"])
    /\ UNCHANGED <<profile, sessions, games, ledger>>
    /\ Frame

CompleteFinal(r) ==
    /\ At(r, "c_final")
    /\ Goto(r, Respond(Me(r),
              [ProfileResp(200, profile[Me(r).user], today) EXCEPT
                  !.asOf = Me(r).resp.asOf, !.at = Me(r).resp.at,
                  !.durationMinutes = Me(r).dur, !.sessionId = Me(r).arg.sid]))
    /\ UNCHANGED <<profile, sessions, games, ledger, usageLog>>
    /\ Frame

\* ---- guardian requests.  authenticate loads only the guardian's own
\* profile; canAccessChild admits a child of linkedChildren
LinkedChildren(g) == Children

BeginGuardian(r, op, g, arg) ==
    /\ FreeSlot(r)
    /\ arg.child \in LinkedChildren(g) \cup {"nobody"}
    /\ Goto(r, [NewReq(op, g, arg, op) EXCEPT !.day0 = today])
    /\ UNCHANGED <<profile, sessions, games, ledger, usageLog>>
    /\ Received

BeginChildren(r) == \E g \in Guardians : BeginGuardian(r, "g_list", g, NoArg)

BeginDashboard(r) == \E g \in Guardians : BeginGuardian(r, "g_dash", g, NoArg)

BeginTimeLimit(r) ==
    \E g \in Guardians, c \in Children, m \in LimitInputs :
        BeginGuardian(r, "g_limit", g, [NoArg EXCEPT !.child = c, !.minutes = m])

BeginAddTime(r) ==
    \E g \in Guardians, c \in Children, m \in ExtraInputs :
        BeginGuardian(r, "g_add", g, [NoArg EXCEPT !.child = c, !.minutes = m])

ViewOf(doc, day) ==
    [timeUsedToday |-> doc.timeUsedToday,
     timeLimitMinutes |-> doc.timeLimitMinutes,
     asOf |-> doc.lastTimeReset, at |-> day]

\* GET /children: find the linked profiles, resetDailyTime on each
\* (Promise.all: the saves are issued together and land in any order)
ListResp(q, hs, day) ==
    Respond(q, [Status(200) EXCEPT !.views =
        [c \in Children |-> IF c \in LinkedChildren(q.user)
                            THEN ViewOf(hs[c].doc, day) ELSE NoView]])

ChildrenLoad(r) ==
    /\ At(r, "g_list")
    /\ LET hs == [c \in Children |->
                    IF c \in LinkedChildren(Me(r).user)
                    THEN ResetDailyTime(Handle(profile[c]), today)
                    ELSE NoHandle]
       IN IF \E c \in Children : hs[c].dirty # {}
          THEN Goto(r, [Me(r) EXCEPT !.pc = "g_list_save", !.profs = hs,
                                     !.resp = [NoResp EXCEPT !.at = today]])
          ELSE Goto(r, ListResp(Me(r), hs, today))
    /\ UNCHANGED <<profile, sessions, games, ledger, usageLog>>
    /\ Frame

ChildrenSave(r) ==
    /\ At(r, "g_list_save")
    /\ \E c \in Children :
          /\ Me(r).profs[c].dirty # {}
          /\ profile' = [profile EXCEPT ![c] = Saved(@, Me(r).profs[c])]
          /\ LET hs == [Me(r).profs EXCEPT ![c] = Clean(@)]
             IN IF \E d \in Children : hs[d].dirty # {}
                THEN Goto(r, [Me(r) EXCEPT !.profs = hs])
                ELSE Goto(r, ListResp([Me(r) EXCEPT !.didReset = TRUE], hs,
                                      Me(r).resp.at))
    /\ UNCHANGED <<sessions, games, ledger, usageLog>>
    /\ Frame

\* GET /dashboard-stats: find the linked profiles, sum their fields, then
\* count the unresolved alerts
DashboardLoad(r) ==
    /\ At(r, "g_dash")
    /\ Goto(r, [Me(r) EXCEPT !.pc = "g_dash_count",
                 !.resp = [NoResp EXCEPT !.views =
                    [c \in Children |-> IF c \in LinkedChildren(Me(r).user)
                                        THEN ViewOf(profile[c], today)
                                        ELSE NoView]]])
    /\ UNCHANGED <<profile, sessions, games, ledger, usageLog>>
    /\ Frame

DashboardCount(r) ==
    /\ At(r, "g_dash_count")
    /\ Goto(r, Respond(Me(r), [Me(r).resp EXCEPT !.status = 200]))
    /\ UNCHANGED <<profile, sessions, games, ledger, usageLog>>
    /\ Frame

\* fault variant of the time-limit validation: every value passes
ValidTimeLimitAny(m) == TRUE

\* PUT /children/:childProfileId/time-limit
ValidTimeLimit(m) == ~(m = 0 \/ m < MinTimeLimit \/ m > MaxTimeLimit)

TimeLimitUpdate(r) ==
    /\ At(r, "g_limit")
    /\ IF ~ValidTimeLimit(Me(r).arg.minutes)
       THEN /\ Goto(r, Respond(Me(r), Status(400)))
            /\ UNCHANGED profile
       ELSE /\ profile' = [profile EXCEPT ![Me(r).arg.child] =
                              [@ EXCEPT !.timeLimitMinutes = Me(r).arg.minutes,
                                        !.extended = -1]]
            /\ Goto(r, Respond(Me(r), [Status(200) EXCEPT
                                        !.timeLimitMinutes = Me(r).arg.minutes]))
    /\ UNCHANGED <<sessions, games, ledger, usageLog>>
    /\ Frame

\* GET /games: the active games of the child's age group, filtered by
\* allowedGames when the guardian has set a non-empty list
GamesListed(doc, catalogue) ==
    LET forAge == {g \in DOMAIN catalogue :
                      catalogue[g].isActive /\ AgeAllowed(catalogue[g], doc)}
    IN IF doc.allowedGames # {}
       THEN {g \in forAge : g \in doc.allowedGames}
       ELSE forAge

\* PUT /children/:childProfileId/allowed-games: the body's allowedGames must
\* be an array (given), one findByIdAndUpdate writes it
BeginAllowedGames(r) ==
    \E g \in Guardians, c \in Children, a \in AllowedInputs \cup {{}},
       given \in SUBSET {"allowedGames"} :
        BeginGuardian(r, "g_allowed", g,
            [NoArg EXCEPT !.child = c, !.given = given,
                          !.allowed = IF given = {} THEN {} ELSE a])

AllowedGamesUpdate(r) ==
    /\ At(r, "g_allowed")
    /\ IF "allowedGames" \notin Me(r).arg.given
       THEN /\ Goto(r, Respond(Me(r), Status(400)))
            /\ UNCHANGED profile
       ELSE /\ profile' = [profile EXCEPT ![Me(r).arg.child] =
                              [@ EXCEPT !.allowedGames = Me(r).arg.allowed]]
            /\ Goto(r, Respond(Me(r), Status(200)))
    /\ UNCHANGED <<sessions, games, ledger, usageLog>>
    /\ Frame

\* PUT /children/:childProfileId/settings: timeLimitMinutes and allowedGames
\* are both optional; one findByIdAndUpdate writes the fields given
BeginSettings(r) ==
    \E g \in Guardians, c \in Children, m \in LimitInputs, a \in AllowedInputs,
       given \in SUBSET {"timeLimitMinutes", "allowedGames"} :
        BeginGuardian(r, "g_settings", g,
            [NoArg EXCEPT !.child = c, !.given = given,
                          !.minutes = IF "timeLimitMinutes" \in given THEN m ELSE 0,
                          !.allowed = IF "allowedGames" \in given THEN a ELSE {}])

ValidSettingsLimit(m) == ~(m < MinTimeLimit \/ m > MaxTimeLimit)

SettingsUpdate(r) ==
    /\ At(r, "g_settings")
    /\ LET a == Me(r).arg
           old == profile[a.child]
           new == [old EXCEPT
                     !.timeLimitMinutes =
                         IF "timeLimitMinutes" \in a.given THEN a.minutes ELSE @,
                     !.extended =
                         IF "timeLimitMinutes" \in a.given THEN -1 ELSE @,
                     !.allowedGames =
                         IF "allowedGames" \in a.given THEN a.allowed ELSE @]
       IN IF "timeLimitMinutes" \in a.given /\ ~ValidSettingsLimit(a.minutes)
          THEN /\ Goto(r, Respond(Me(r), Status(400)))
               /\ UNCHANGED profile
          ELSE /\ profile' = [profile EXCEPT ![a.child] = new]
               /\ Goto(r, Respond(Me(r), [Status(200) EXCEPT
                                           !.timeLimitMinutes = new.timeLimitMinutes]))
    /\ UNCHANGED <<sessions, games, ledger, usageLog>>
    /\ Frame

\* POST /children/:childProfileId/add-time
ValidExtraMinutes(m) == ~(m = 0 \/ m < MinExtraMinutes \/ m > MaxExtraMinutes)

AddTimeLoad(r) ==
    /\ At(r, "g_add")
    /\ IF ~ValidExtraMinutes(Me(r).arg.minutes)
       THEN Goto(r, Respond(Me(r), Status(400)))
       ELSE LET h == Handle(profile[Me(r).arg.child])
            IN Goto(r, [Me(r) EXCEPT !.pc = "g_add_save",
                   !.prof = SetPath(SetPath(h, "timeLimitMinutes",
                                h.doc.timeLimitMinutes + Me(r).arg.minutes),
                                "extended", today),
                   !.resp = [NoResp EXCEPT !.asOf = h.doc.lastTimeReset,
                                           !.at = today]])
    /\ UNCHANGED <<profile, sessions, games, ledger, usageLog>>
    /\ Frame

AddTimeSave(r) ==
    /\ At(r, "g_add_save")
    /\ IF ~ValidProfile(Me(r).prof)
       THEN /\ Goto(r, Respond(Me(r), Status(500)))
            /\ UNCHANGED profile
       ELSE /\ profile' = [profile EXCEPT ![Me(r).arg.child] =
                                            Saved(@, Me(r).prof)]
            /\ LET resp == [Me(r).resp EXCEPT
                    !.status = 200,
                    !.timeLimitMinutes = Me(r).prof.doc.timeLimitMinutes,
                    !.timeRemaining = TimeRemaining(Me(r).prof.doc)]
               IN IF Me(r).arg.alert = 0
                  THEN Goto(r, Respond(Me(r), resp))
                  ELSE Goto(r, [Me(r) EXCEPT !.pc = "g_add_alert",
                                             !.prof = NoHandle, !.resp = resp])
    /\ UNCHANGED <<sessions, games, ledger, usageLog>>
    /\ Frame

\* ---- the chat monitor: SafetyThreatDictionary, ChatMessage, SafetyAlert
\* a child account that no guardian's linkedChildren holds
Unlinked == {"c2"}
Senders == Children \cup Unlinked

\* the guardian whose linkedChildren holds the child's profile
GuardianOf(c) ==
    IF \E g \in Guardians : c \in LinkedChildren(g)
    THEN CHOOSE g \in Guardians : c \in LinkedChildren(g)
    ELSE "nobody"

\* texts are sequences of characters
Texts ==
    {<<"x">>, <<"x", "A", "b">>, <<"c">>, <<"a", "x", "B">>}

\* String.prototype.toLowerCase on the characters in use
LowerChar(ch) ==
    CASE ch = "A" -> "a"
      [] ch = "B" -> "b"
      [] ch = "C" -> "c"
      [] OTHER -> ch

ToLowerCase(text) == [i \in 1..Len(text) |-> LowerChar(text[i])]

\* String.prototype.includes
Includes(text, word) ==
    \E i \in 0..(Len(text) - Len(word)) :
        SubSeq(text, i + 1, i + Len(word)) = word

\* a dictionary entry; the schema's setters store the keyword trimmed and in
\* lower case
ThreatEntry(keyword, severity, category, isActive) ==
    [keyword |-> ToLowerCase(keyword), severity |-> severity,
     category |-> category, isActive |-> isActive]

\* the dictionary the seeder leaves, one entry deactivated since
SeededDictionary ==
    <<ThreatEntry(<<"a", "b">>, "Low", "Cyberbullying", TRUE),
      ThreatEntry(<<"b">>, "High", "PersonalInfo", TRUE),
      ThreatEntry(<<"c">>, "Medium", "Cyberbullying", FALSE)>>

Match(entry) ==
    [keyword |-> entry.keyword, severity |-> entry.severity,
     category |-> entry.category]

\* fault variant of the scan: deactivated entries are scanned too
CheckContentAll(dict, content) ==
    LET lowerContent == ToLowerCase(content)
        Hit(entry) == Includes(lowerContent, entry.keyword)
        found == SelectSeq(dict, Hit)
    IN [i \in 1..Len(found) |-> Match(found[i])]

\* checkContent: the active entries, in the order find returns them, whose
\* keyword the lowered content includes
CheckContent(dict, content) ==
    LET lowerContent == ToLowerCase(content)
        Hit(entry) == entry.isActive /\ Includes(lowerContent, entry.keyword)
        found == SelectSeq(dict, Hit)
    IN [i \in 1..Len(found) |-> Match(found[i])]

SeverityOrder(s) ==
    CASE s = "High" -> 3
      [] s = "Medium" -> 2
      [] s = "Low" -> 1

RECURSIVE HighestFrom(_, _, _)
HighestFrom(threats, i, highest) ==
    IF i > Len(threats) THEN highest
    ELSE HighestFrom(threats, i + 1,
            IF SeverityOrder(threats[i].severity) > SeverityOrder(highest)
            THEN threats[i].severity ELSE highest)

\* getHighestSeverity: null for no threats
GetHighestSeverity(threats) ==
    IF Len(threats) = 0 THEN "none"
    ELSE HighestFrom(threats, 1, threats[1].severity)

\* the chat message being saved
NoChat ==
    [pc |-> "idle", senderId |-> "nobody", content |-> <<>>, threats |-> <<>>,
     isFlagged |-> FALSE, flagReason |-> <<>>]

ChatFrame ==
    UNCHANGED <<now, today, nTicks, nFail, nReqs, profile, sessions, games,
                ledger, usageLog, req, snap, dictionary, notifs>>

\* a child's chat message is saved: new ChatMessage({senderId, content}).save()
\* (messages are saved while no guardian's request is in flight)
ChatSave ==
    /\ chat.pc = "idle"
    /\ Quiet
    /\ Len(messages) < MaxMsgs
    /\ \E c \in Senders, text \in Texts :
          chat' = [NoChat EXCEPT !.pc = "scan", !.senderId = c, !.content = text]
    /\ UNCHANGED <<messages, alerts>>
    /\ ChatFrame

\* pre('save'): the message is new, checkContent reads the dictionary
ChatScan ==
    /\ chat.pc = "scan"
    /\ NoneDone
    /\ LET threats == CheckContent(dictionary, chat.content)
       IN chat' = IF Len(threats) > 0
                  THEN [chat EXCEPT !.pc = "alert", !.threats = threats,
                            !.isFlagged = TRUE,
                            !.flagReason = [i \in 1..Len(threats) |->
                                               threats[i].category]]
                  ELSE [chat EXCEPT !.pc = "store"]
    /\ UNCHANGED <<messages, alerts>>
    /\ ChatFrame

AlertTypeOf(category) ==
    CASE category = "Cyberbullying" -> "Cyberbullying"
      [] category = "ExplicitContent" -> "ExplicitContent"
      [] OTHER -> "Other"

\* the retention period on the model's clock
RetentionTicks == RetentionDays * MinutesPerDay * TicksPerMinute

\* a new SafetyAlert document; message: the position of the chat message
\* the alert was raised for (the code stores only the number of concerns);
\* removed: the document was deleted and its id is not in the collection
NewAlert(childId, severity, alertType, triggerKeyword, concerns, message, at) ==
    [childId |-> childId, severity |-> severity, alertType |-> alertType,
     triggerKeyword |-> triggerKeyword, concerns |-> concerns,
     message |-> message, createdAt |-> at, resolved |-> FALSE,
     resolvedAt |-> -1, resolvedBy |-> "nobody",
     expiresAt |-> at + RetentionTicks, removed |-> FALSE]

\* findById finds the alert
AlertStored(id) == id \in 1..Len(alerts) /\ ~alerts[id].removed

\* pre('save'): SafetyAlert.create for a flagged message
ChatAlert ==
    /\ chat.pc = "alert"
    /\ NoneDone
    /\ alerts' = Append(alerts,
          NewAlert(chat.senderId, GetHighestSeverity(chat.threats),
                   AlertTypeOf(chat.threats[1].category),
                   chat.threats[1].keyword, Len(chat.threats),
                   Len(messages) + 1, now))
    /\ chat' = [chat EXCEPT !.pc = "store"]
    /\ UNCHANGED messages
    /\ ChatFrame

\* next(): the message itself is written
ChatStore ==
    /\ chat.pc = "store"
    /\ NoneDone
    /\ messages' = Append(messages,
          [senderId |-> chat.senderId, content |-> chat.content,
           isFlagged |-> chat.isFlagged, flagReason |-> chat.flagReason])
    /\ chat' = NoChat
    /\ UNCHANGED alerts
    /\ ChatFrame

\* ---- a guardian resolves an alert
\* fault variant of resolve: resolvedBy is left as it was
ResolveFieldsAnonymous(alert, at, by) ==
    [alert EXCEPT !.resolved = TRUE, !.resolvedAt = at]

\* SafetyAlert.resolve: the three fields are set and saved
ResolveFields(alert, at, by) ==
    [alert EXCEPT !.resolved = TRUE, !.resolvedAt = at, !.resolvedBy = by]

\* the alert ids a request may carry: the stored ones and one that is not
AlertIds == 1..(Len(alerts) + 1)

\* PUT /alerts/:alertId/resolve
BeginResolve(r) ==
    \E g \in Guardians, id \in AlertIds :
        /\ FreeSlot(r)
        /\ chat.pc = "idle"
        /\ Goto(r, [NewReq("g_resolve", g, [NoArg EXCEPT !.alert = id],
                           "g_resolve") EXCEPT !.day0 = today])
        /\ UNCHANGED <<profile, sessions, games, ledger, usageLog>>
        /\ Received

ResolveFind(r) ==
    /\ At(r, "g_resolve")
    /\ IF ~AlertStored(Me(r).arg.alert)
       THEN Goto(r, Respond(Me(r), Status(404)))
       ELSE Goto(r, [Me(r) EXCEPT !.pc = "g_resolve_access"])
    /\ UNCHANGED alerts
    /\ AlertFrame

\* the guardian's profile and the profile of the alert's child are found;
\* linkedChildren must hold the child's profile
ResolveAccess(r) ==
    /\ At(r, "g_resolve_access")
    /\ IF alerts[Me(r).arg.alert].childId \notin LinkedChildren(Me(r).user)
       THEN Goto(r, Respond(Me(r), Status(403)))
       ELSE Goto(r, [Me(r) EXCEPT !.pc = "g_resolve_save"])
    /\ UNCHANGED alerts
    /\ AlertFrame

\* save() of a document deleted since it was loaded writes nothing; it
\* throws DocumentNotFoundError or returns, depending on the Mongoose version
ResolveSave(r) ==
    /\ At(r, "g_resolve_save")
    /\ IF AlertStored(Me(r).arg.alert)
       THEN /\ alerts' = [alerts EXCEPT ![Me(r).arg.alert] =
                             ResolveFields(@, now, Me(r).user)]
            /\ Goto(r, Respond(Me(r), Status(200)))
       ELSE /\ UNCHANGED alerts
            /\ \E code \in {200, 500} : Goto(r, Respond(Me(r), Status(code)))
    /\ AlertFrame

\* POST /children/:childProfileId/add-time with an alertId in the body
BeginAddTimeAlert(r) ==
    \E g \in Guardians, c \in Children, m \in ExtraInputs, id \in AlertIds :
        /\ chat.pc = "idle"
        /\ BeginGuardian(r, "g_add", g,
              [NoArg EXCEPT !.child = c, !.minutes = m, !.alert = id])

\* add-time: SafetyAlert.findById(alertId)
AddTimeAlert(r) ==
    /\ At(r, "g_add_alert")
    /\ IF ~AlertStored(Me(r).arg.alert)
       THEN Goto(r, Respond(Me(r), Me(r).resp))
       ELSE Goto(r, [Me(r) EXCEPT !.pc = "g_add_resolve"])
    /\ UNCHANGED alerts
    /\ AlertFrame

\* add-time: alert.resolve(req.user._id)
AddTimeResolve(r) ==
    /\ At(r, "g_add_resolve")
    /\ IF AlertStored(Me(r).arg.alert)
       THEN /\ alerts' = [alerts EXCEPT ![Me(r).arg.alert] =
                             ResolveFields(@, now, Me(r).user)]
            /\ Goto(r, Respond(Me(r), Me(r).resp))
       ELSE /\ UNCHANGED alerts
            /\ \E code \in {200, 500} :
                  Goto(r, Respond(Me(r), IF code = 500 THEN Status(500)
                                         ELSE Me(r).resp))
    /\ AlertFrame

\* ---- a child asks for more time: POST /request-time-extension
ValidRequestedMinutes(m) == ~(m = 0 \/ m < MinExtraMinutes \/ m > MaxExtraMinutes)

BeginExtension(r) ==
    \E c \in Children, m \in ExtraInputs :
        /\ chat.pc = "idle"
        /\ BeginChild(r, "extend", c, [NoArg EXCEPT !.minutes = m])

\* createTimeExtensionRequest: triggerKeyword keeps its default, null
ExtensionAlert(childId, at) ==
    NewAlert(childId, "Low", "TimeExtensionRequest", <<>>, 0, 0, at)

ExtensionCreate(r) ==
    /\ At(r, "x_create")
    /\ IF ~ValidRequestedMinutes(Me(r).arg.minutes)
       THEN /\ Goto(r, Respond(Me(r), Status(400)))
            /\ UNCHANGED alerts
       ELSE /\ alerts' = Append(alerts, ExtensionAlert(Me(r).user, now))
            /\ Goto(r, Respond(Me(r), Status(200)))
    /\ AlertFrame

\* ---- notifications
MaxNotifs == 1

NewNotification(guardianId, alertId, at) ==
    [guardianId |-> guardianId, alertId |-> alertId, isRead |-> FALSE,
     sentAt |-> at, readAt |-> -1]

NotifFrame ==
    UNCHANGED <<now, today, nTicks, nFail, nReqs, snap, profile, sessions,
                games, ledger, usageLog, dictionary, messages, alerts, chat>>

\* Notification.createFromAlert(alertId, childId), called for a stored
\* alert: the child's profile, then the guardian profile that links it,
\* then Notification.create; null for a child without a guardian
CreateFromAlert ==
    /\ Quiet
    /\ chat.pc = "idle"
    /\ Len(notifs) < MaxNotifs
    /\ \E a \in 1..Len(alerts) :
          /\ AlertStored(a)
          /\ GuardianOf(alerts[a].childId) # "nobody"
          /\ notifs' = Append(notifs,
                NewNotification(GuardianOf(alerts[a].childId), a, now))
    /\ UNCHANGED req
    /\ NotifFrame

\* markAsRead: isRead and readAt are set and saved
MarkAsRead(n, at) == [n EXCEPT !.isRead = TRUE, !.readAt = at]

\* PUT /notifications/:notificationId/read
BeginRead(r) ==
    \E g \in Guardians, n \in 1..(Len(notifs) + 1) :
        /\ FreeSlot(r)
        /\ chat.pc = "idle"
        /\ Goto(r, [NewReq("g_read", g, [NoArg EXCEPT !.entry = n], "g_read")
                       EXCEPT !.day0 = today])
        /\ UNCHANGED <<profile, sessions, games, ledger, usageLog>>
        /\ Received

\* Notification.findOne({_id, guardianId})
ReadFind(r) ==
    /\ At(r, "g_read")
    /\ IF \/ Me(r).arg.entry \notin 1..Len(notifs)
          \/ notifs[Me(r).arg.entry].guardianId # Me(r).user
       THEN Goto(r, Respond(Me(r), Status(404)))
       ELSE Goto(r, [Me(r) EXCEPT !.pc = "g_read_save"])
    /\ UNCHANGED notifs
    /\ NotifFrame

ReadSave(r) ==
    /\ At(r, "g_read_save")
    /\ notifs' = [notifs EXCEPT ![Me(r).arg.entry] = MarkAsRead(@, now)]
    /\ Goto(r, Respond(Me(r), Status(200)))
    /\ NotifFrame

\* ---- retention: the TTL index on expiresAt
MaxRetentions == 1

\* the retention period passes
Elapse ==
    /\ Quiet
    /\ chat.pc = "idle"
    /\ today < MaxRetentions * RetentionDays
    /\ now' = now + RetentionTicks
    /\ today' = today + RetentionDays
    /\ UNCHANGED <<nTicks, nFail, nReqs, profile, sessions, games, ledger,
                   usageLog, req, snap, Monitor>>

\* fault variant of the TTL index: resolved alerts are kept
ExpiredOpen(alert, t, atNow) ==
    ~alert.resolved /\ (alert.expiresAt < t \/ (atNow /\ alert.expiresAt = t))

\* index({expiresAt: 1}, {expireAfterSeconds: 0}): the document has expired;
\* atNow: a document that expires at this very moment counts as expired
Expired(alert, t, atNow) ==
    alert.expiresAt < t \/ (atNow /\ alert.expiresAt = t)

\* the database's TTL monitor deletes the expired alerts
Sweep ==
    /\ \E id \in 1..Len(alerts) :
          ~alerts[id].removed /\ alerts[id].expiresAt <= now
    /\ \E atNow \in BOOLEAN :
          alerts' = [id \in 1..Len(alerts) |->
                        IF Expired(alerts[id], now, atNow)
                        THEN [alerts[id] EXCEPT !.removed = TRUE]
                        ELSE alerts[id]]
    /\ UNCHANGED req
    /\ AlertFrame

\* ---- the administrator's requests on the dictionary
Admins == {"a1"}

\* the keywords, severities and categories a request body may carry
KeywordInputs ==
    {<<>>, <<" ">>, <<"B">>, <<" ", "c">>, <<"D", " ">>, <<"d">>}
SeverityInputs == {"none", "Low", "High"}
CategoryInputs == {"none", "Violence"}

\* String.prototype.trim
RECURSIVE Trim(_)
Trim(text) ==
    IF text = <<>> THEN text
    ELSE IF Head(text) = " " THEN Trim(Tail(text))
    ELSE IF text[Len(text)] = " " THEN Trim(SubSeq(text, 1, Len(text) - 1))
    ELSE text

\* fault variant of the unique index: only active entries are compared
HasActiveKeyword(dict, keyword) ==
    \E i \in 1..Len(dict) : dict[i].isActive /\ dict[i].keyword = keyword

\* the unique index on keyword: an entry with the keyword is stored
HasKeyword(dict, keyword) ==
    \E i \in 1..Len(dict) : dict[i].keyword = keyword

\* fault variant of the deactivation: the entry is deleted
Removed(dict, id) ==
    SubSeq(dict, 1, id - 1) \o SubSeq(dict, id + 1, Len(dict))

\* findByIdAndUpdate(threatId, {isActive: false})
Deactivated(dict, id) == [dict EXCEPT ![id].isActive = FALSE]

AdminFrame ==
    UNCHANGED <<now, today, nTicks, nFail, nReqs, snap, profile, sessions,
                games, ledger, usageLog, messages, alerts, notifs, chat>>

BeginAdmin(r, op, a, arg) ==
    /\ FreeSlot(r)
    /\ Goto(r, [NewReq(op, a, arg, op) EXCEPT !.day0 = today])
    /\ UNCHANGED <<profile, sessions, games, ledger, usageLog>>
    /\ Received

\* POST /safety-threats
BeginAddKeyword(r) ==
    \E a \in Admins, k \in KeywordInputs, s \in SeverityInputs,
       c \in CategoryInputs :
        BeginAdmin(r, "a_add", a,
            [NoArg EXCEPT !.keyword = k, !.severity = s, !.category = c])

\* SafetyThreatDictionary.create: the required validator rejects an empty
\* keyword (500), the unique index a stored one (code 11000, 400)
ThreatCreate(r) ==
    /\ At(r, "a_add")
    /\ LET a == Me(r).arg
           keyword == Trim(ToLowerCase(a.keyword))
       IN IF a.keyword = <<>> \/ a.severity = "none"
          THEN /\ Goto(r, Respond(Me(r), Status(400)))
               /\ UNCHANGED dictionary
          ELSE IF keyword = <<>>
          THEN /\ Goto(r, Respond(Me(r), Status(500)))
               /\ UNCHANGED dictionary
          ELSE IF HasKeyword(dictionary, keyword)
          THEN /\ Goto(r, Respond(Me(r), Status(400)))
               /\ UNCHANGED dictionary
          ELSE /\ dictionary' = Append(dictionary,
                     ThreatEntry(keyword, a.severity,
                         IF a.category = "none" THEN "Other" ELSE a.category,
                         TRUE))
               /\ Goto(r, [Me(r) EXCEPT !.pc = "a_add_log"])
    /\ AdminFrame

\* SystemAuditLog.log, then 201
ThreatCreateLog(r) ==
    /\ At(r, "a_add_log")
    /\ Goto(r, Respond(Me(r), Status(201)))
    /\ UNCHANGED dictionary
    /\ AdminFrame

\* DELETE /safety-threats/:threatId
BeginDeactivate(r) ==
    \E a \in Admins, id \in 1..(Len(dictionary) + 1) :
        BeginAdmin(r, "a_del", a, [NoArg EXCEPT !.entry = id])

ThreatDeactivate(r) ==
    /\ At(r, "a_del")
    /\ IF Me(r).arg.entry \notin 1..Len(dictionary)
       THEN /\ Goto(r, Respond(Me(r), Status(404)))
            /\ UNCHANGED dictionary
       ELSE /\ dictionary' = Deactivated(dictionary, Me(r).arg.entry)
            /\ Goto(r, [Me(r) EXCEPT !.pc = "a_del_log"])
    /\ AdminFrame

\* SystemAuditLog.log, then 200
ThreatDeactivateLog(r) ==
    /\ At(r, "a_del_log")
    /\ Goto(r, Respond(Me(r), Status(200)))
    /\ UNCHANGED dictionary
    /\ AdminFrame

\* ---- a storage operation rejects: the handler's catch answers 500, but
\* checkScreenTime's catch calls next() and the start route runs on
Fail(r) ==
    /\ NoneDone
    /\ InFlight(r)
    /\ nFail < MaxFail
    /\ nFail' = nFail + 1
    /\ IF Me(r).op = "start" /\ Me(r).pc \in {"ts_load", "ts_save"}
       THEN Goto(r, [Me(r) EXCEPT !.pc = "s_game", !.prof = NoHandle])
       ELSE Goto(r, Respond(Me(r), Status(500)))
    /\ UNCHANGED <<now, today, nTicks, nReqs, profile, sessions, games,
                   ledger, usageLog, snap, Monitor>>

\* ---- the client has read the response
Release(r) ==
    /\ req[r].pc = "done"
    /\ Goto(r, IdleReq)
    /\ snap' = IF \A q \in Reqs \ {r} : req[q].pc = "idle" THEN Store ELSE snap
    /\ UNCHANGED <<profile, sessions, games, ledger, usageLog>>
    /\ UNCHANGED <<now, today, nTicks, nFail, nReqs, Monitor>>

\* ---- the clock
\* time passes between requests: a request is over within one tick
Tick ==
    /\ Quiet
    /\ nTicks < MaxTicks
    /\ \E d \in TickSteps : now' = now + d
    /\ nTicks' = nTicks + 1
    /\ UNCHANGED <<today, nFail, nReqs, profile, sessions, games, ledger,
                   usageLog, req, snap, Monitor>>

Midnight ==
    /\ NoneDone
    /\ today < MaxDay
    /\ today' = today + 1
    /\ UNCHANGED <<now, nTicks, nFail, nReqs, profile, sessions, games,
                   ledger, usageLog, req, snap, Monitor>>

\* ------------------------------------------------------------ specification
\* The catalogue: one game for every age group, one withdrawn game and one
\* game for the oldest group only.
Catalogue ==
    [g \in Games |->
        CASE g = "math" -> NewGame(TRUE, {"3-5", "6-8", "9-12"})
          [] g = "retired" -> NewGame(FALSE, {"3-5", "6-8", "9-12"})
          [] g = "teens" -> NewGame(TRUE, {"9-12"})]

\* The system starts either right after the child's account was created
\* (played = FALSE) or after the child has, on day 0, started the math game
\* at time 0, completed it 59 minutes later with EarlierScore points and no
\* badge, and then started two more math sessions that are still open
\* (played = TRUE).
EarlierTicks == 59 * TicksPerMinute
EarlierScore == 10

EarlierSession ==
    CompleteFields(NewSession("c1", "math", 0), EarlierTicks, EarlierScore, "none")

InitPlayed == {FALSE, TRUE}
OpenAfterPlay == 2

\* others: the open sessions of children of other families
InitWith(others) ==
    \E played \in InitPlayed :
        LET open == IF played THEN OpenAfterPlay ELSE 0
            t == IF played THEN EarlierTicks ELSE 0
            m == IF played THEN DurationMinutes(EarlierSession) ELSE 0
            fresh == NewProfile("6-8", 0)
        IN /\ now = t
           /\ today = 0
           /\ nTicks = 0
           /\ nFail = 0
           /\ nReqs = 0
           /\ profile = [c \in Children \cup
                               {others[i].childId : i \in 1..Len(others)} |->
                 IF played /\ c = "c1"
                 THEN [fresh EXCEPT !.knowledgePoints = EarlierScore,
                                    !.totalGamesPlayed = 1,
                                    !.timeUsedToday = m, !.totalTimeSpent = m]
                 ELSE fresh]
           /\ sessions = (IF played THEN <<EarlierSession>> ELSE <<>>)
                          \o [i \in 1..open |-> NewSession("c1", "math", t)]
                          \o others
           /\ games = IF played
                      THEN [Catalogue EXCEPT !["math"] =
                               RecordPlay(@, EarlierScore)]
                      ELSE Catalogue
           /\ ledger = IF played
                       THEN <<[childId |-> "c1", points |-> EarlierScore,
                               reason |-> "math", sid |-> 1]>>
                       ELSE <<>>
           /\ usageLog = IF played
                         THEN <<[childId |-> "c1", durationMinutes |-> m,
                                 gameId |-> "math", date |-> 0,
                                 sid |-> 1]>>
                         ELSE <<>>
           /\ req = [r \in Reqs |-> IdleReq]
           /\ dictionary = SeededDictionary
           /\ messages = <<>>
           /\ alerts = <<>>
           /\ notifs = <<>>
           /\ chat = NoChat
           /\ snap = Store

Init == InitWith(<<>>)

\* a child of another family has an open math session
InitOwn == InitWith(<<NewSession("c2", "math", 0)>>)

\* what can happen to the request on slot r
Handler(r) ==
    \/ BeginProfile(r) \/ BeginStatus(r) \/ BeginStart(r) \/ BeginComplete(r)
    \/ BeginChildren(r) \/ BeginDashboard(r) \/ BeginTimeLimit(r)
    \/ BeginAddTime(r)
    \/ AuthLoad(r) \/ AuthSave(r)
    \/ ProfileLoad(r) \/ ProfileSave(r)
    \/ StatusLoad(r) \/ StatusSave(r)
    \/ StartGame(r) \/ StartProfile(r) \/ StartCreate(r)
    \/ CompleteFind(r) \/ CompleteSession(r) \/ CompleteProfile(r)
    \/ CompletePoints(r) \/ CompleteTransaction(r) \/ CompleteBadge(r)
    \/ CompletePlayed(r) \/ CompleteGame(r) \/ CompleteStats(r)
    \/ CompleteProfile2(r) \/ CompleteTime(r) \/ CompleteLog(r)
    \/ CompleteFinal(r)
    \/ ChildrenLoad(r) \/ ChildrenSave(r)
    \/ DashboardLoad(r) \/ DashboardCount(r)
    \/ TimeLimitUpdate(r)
    \/ AddTimeLoad(r) \/ AddTimeSave(r)
    \/ Release(r)

\* midnight falls while at most one request is in flight
MidnightAlone ==
    /\ Cardinality({r \in Reqs : InFlight(r)}) <= 1
    /\ Midnight

\* Requests overlap freely on the slots of Reqs; the storage layer does not
\* fail.
Next ==
    \/ \E r \in Reqs : Handler(r)
    \/ Tick
    \/ MidnightAlone

Spec == Init /\ [][Next]_vars

\* One request at a time (a single slot); storage operations may fail; the
\* guardian also sends settings updates.
SeqReqs == {1}

NextSeq ==
    \/ \E r \in SeqReqs : Handler(r)
    \/ \E r \in SeqReqs : BeginSettings(r) \/ SettingsUpdate(r)
    \/ \E r \in SeqReqs : BeginAllowedGames(r) \/ AllowedGamesUpdate(r)
    \/ \E r \in SeqReqs : Fail(r)
    \/ Tick
    \/ Midnight

SpecSeq == Init /\ [][NextSeq]_vars

\* the same, with a session of another family's child in the store
SpecOwn == InitOwn /\ [][NextSeq]_vars

\* chat messages and the guardian's requests on alerts, two requests at a time
NextAlerts ==
    \/ ChatSave
    \/ ChatScan
    \/ ChatAlert
    \/ ChatStore
    \/ \E r \in Reqs :
          \/ BeginResolve(r)
          \/ ResolveFind(r)
          \/ ResolveAccess(r)
          \/ ResolveSave(r)
          \/ BeginAddTimeAlert(r)
          \/ AddTimeLoad(r)
          \/ AddTimeSave(r)
          \/ AddTimeAlert(r)
          \/ AddTimeResolve(r)
          \/ Release(r)
    \/ Tick

SpecAlerts == Init /\ [][NextAlerts]_vars

\* the administrator's requests on the dictionary, two at a time
NextDict ==
    \/ \E r \in Reqs :
          \/ BeginAddKeyword(r)
          \/ ThreatCreate(r)
          \/ ThreatCreateLog(r)
          \/ BeginDeactivate(r)
          \/ ThreatDeactivate(r)
          \/ ThreatDeactivateLog(r)
          \/ Fail(r)
          \/ Release(r)

SpecDict == Init /\ [][NextDict]_vars

\* time-extension requests, notifications and their reading, one request
\* at a time within one day
NextInbox ==
    \/ \E r \in SeqReqs :
          \/ BeginExtension(r)
          \/ AuthLoad(r)
          \/ ExtensionCreate(r)
          \/ BeginRead(r)
          \/ ReadFind(r)
          \/ ReadSave(r)
          \/ Release(r)
    \/ ChatSave
    \/ ChatScan
    \/ ChatAlert
    \/ ChatStore
    \/ CreateFromAlert
    \/ Tick

SpecInbox == Init /\ [][NextInbox]_vars

\* alerts from their creation to their deletion
NextRetention ==
    \/ ChatSave
    \/ ChatScan
    \/ ChatAlert
    \/ ChatStore
    \/ \E r \in SeqReqs :
          \/ BeginExtension(r)
          \/ AuthLoad(r)
          \/ ExtensionCreate(r)
          \/ BeginResolve(r)
          \/ ResolveFind(r)
          \/ ResolveAccess(r)
          \/ ResolveSave(r)
          \/ Release(r)
    \/ Tick
    \/ Elapse
    \/ Sweep

SpecRetention == Init /\ [][NextRetention]_vars

\* ------------------------------------------------------------------ claims
\* the entries the ledger and the usage log hold on behalf of session sid
AwardsFor(sid) == Cardinality({i \in 1..Len(ledger) : ledger[i].sid = sid})
DebitsFor(sid) == Cardinality({i \in 1..Len(usageLog) : usageLog[i].sid = sid})

\* a request of operation op has been answered
Answered(r, op) == req[r].pc = "done" /\ req[r].op = op

\* the completion request on slot r names a session that existed, and was
\* the caller's own, when the request arrived
OwnSession(r) ==
    /\ req[r].arg.sid \in 1..Len(snap.sessions)
    /\ snap.sessions[req[r].arg.sid].childId = req[r].user

\* timeUsedToday as the request on slot r found it: the stored value, or 0
\* when the request's own daily reset came first
UsedBefore(r) ==
    IF req[r].didReset THEN 0 ELSE snap.profile[req[r].user].timeUsedToday

\* C1: requests handled one after the other.  A completion of the caller's
\* own session that is answered without a storage failure succeeds when the
\* session was open, and then knowledgePoints grew by the score,
\* totalGamesPlayed by one, timeUsedToday and totalTimeSpent by the session's
\* minutes, with one ledger entry and one usage entry for the session; when
\* the session had been completed by an earlier call it is answered 400
\* (already completed) and nothing stored has changed but the daily reset.
C1_CompleteOnce ==
    \A r \in Reqs :
        (Answered(r, "complete") /\ OwnSession(r) /\ req[r].resp.status # 500) =>
            LET sid == req[r].arg.sid
                before == snap.profile[req[r].user]
                after == profile[req[r].user]
            IN IF snap.sessions[sid].isCompleted
               THEN /\ req[r].resp.status = 400
                    /\ after.knowledgePoints = before.knowledgePoints
                    /\ after.totalGamesPlayed = before.totalGamesPlayed
                    /\ after.timeUsedToday = UsedBefore(r)
                    /\ after.totalTimeSpent = before.totalTimeSpent
                    /\ after.achievements = before.achievements
                    /\ sessions = snap.sessions
                    /\ games = snap.games
                    /\ ledger = snap.ledger
                    /\ usageLog = snap.usageLog
               ELSE /\ req[r].resp.status = 200
                    /\ sessions[sid].isCompleted
                    /\ after.knowledgePoints =
                          before.knowledgePoints + req[r].arg.score
                    /\ after.totalGamesPlayed = before.totalGamesPlayed + 1
                    /\ after.timeUsedToday =
                          UsedBefore(r) + req[r].resp.durationMinutes
                    /\ after.totalTimeSpent =
                          before.totalTimeSpent + req[r].resp.durationMinutes
                    /\ AwardsFor(sid) = 1
                    /\ DebitsFor(sid) = 1

\* the second of two calls for a session the first call completed, a minute
\* or more after it was started, has been answered 400
C1_SecondCallRefused ==
    \E r \in Reqs :
        /\ Answered(r, "complete") /\ OwnSession(r)
        /\ req[r].resp.status = 400
        /\ nReqs = 2 /\ nFail = 0
        /\ sessions[req[r].arg.sid].endTime > EarlierTicks
        /\ AwardsFor(req[r].arg.sid) = 1
        /\ DebitsFor(req[r].arg.sid) = 1
        /\ profile[req[r].user].timeUsedToday > 0

\* C2: requests overlap.  Whatever the interleaving of two completions of
\* the same open session, at most one of them gets past the already-completed
\* check, so the ledger never holds more than one award for a session.
C2_AwardedOnce ==
    \A sid \in 1..Len(sessions) : AwardsFor(sid) <= 1

\* C3: in every state, between the steps of a completion as well, each
\* child's knowledgePoints is the sum of the points of the child's ledger
\* entries.
C3_BalanceIsLedgerSum ==
    \A c \in Children : profile[c].knowledgePoints = SumPoints(ledger, c)

\* C4: storage operations may fail.  Once the failed request has been
\* answered and nothing is in flight, no session has its points awarded
\* without its minutes debited, or its minutes debited without its points
\* awarded.
C4_AwardAndDebitTogether ==
    Quiet =>
        \A sid \in 1..Len(sessions) : (AwardsFor(sid) > 0) <=> (DebitsFor(sid) > 0)

\* C5: requests overlap, on one calendar day.  When nothing is in flight
\* every minute the usage log records is counted: timeUsedToday is the sum
\* of the day's usage entries and totalTimeSpent the sum of all of them.
C5_NoLostMinutes ==
    (Quiet /\ today = 0) =>
        \A c \in Children :
            /\ profile[c].timeUsedToday = SumMinutesOn(usageLog, c, today)
            /\ profile[c].totalTimeSpent = SumMinutes(usageLog, c)

\* C6: requests handled one after the other.  When the stored
\* lastTimeReset is of a day earlier than the day of a time-status request,
\* the answer shows timeUsedToday = 0 and timeRemaining = timeLimitMinutes,
\* whatever timeUsedToday was stored, and the record is left with
\* timeUsedToday = 0 and lastTimeReset = today.
C6_StatusAfterMidnight ==
    \A r \in Reqs :
        (/\ Answered(r, "status") /\ req[r].resp.status = 200
         /\ today = req[r].day0
         /\ snap.profile[req[r].user].lastTimeReset < req[r].day0) =>
            /\ req[r].resp.timeUsedToday = 0
            /\ req[r].resp.timeLimitMinutes =
                  snap.profile[req[r].user].timeLimitMinutes
            /\ req[r].resp.timeRemaining = req[r].resp.timeLimitMinutes
            /\ profile[req[r].user].timeUsedToday = 0
            /\ profile[req[r].user].lastTimeReset = today

\* a time-status request on the day after 59 minutes were used has been
\* answered
C6_StatusOnNewDay ==
    \E r \in Reqs :
        /\ Answered(r, "status") /\ req[r].resp.status = 200
        /\ today = req[r].day0
        /\ snap.profile[req[r].user].lastTimeReset < req[r].day0
        /\ snap.profile[req[r].user].timeUsedToday > 0
        /\ req[r].resp.timeRemaining = DefaultTimeLimit

\* C7: requests handled one after the other.  Every answer that shows a
\* child's time record shows a record of the day on which it was read:
\* the daily-reset check came before the read.
C7_ResetCheckedFirst ==
    \A r \in Reqs :
        (req[r].pc = "done" /\ req[r].resp.status \in {200, 201}) =>
            /\ req[r].resp.at # -1 => req[r].resp.asOf = req[r].resp.at
            /\ \A c \in Children :
                  req[r].resp.views[c].at # -1 =>
                      req[r].resp.views[c].asOf = req[r].resp.views[c].at

\* C8: requests overlap.  A step that lowers a child's stored timeUsedToday
\* sets it to 0 and moves lastTimeReset from an earlier day to today.
C8_UsedNeverDecreases ==
    [][\A c \in Children :
          profile'[c].timeUsedToday < profile[c].timeUsedToday =>
              /\ profile'[c].timeUsedToday = 0
              /\ profile[c].lastTimeReset < today
              /\ profile'[c].lastTimeReset = today]_vars

\* the reset that the request on slot r is about to save for child c
ResetPending(r, c) ==
    IF req[r].pc = "g_list_save" THEN req[r].profs[c]
    ELSE IF req[r].pc \in {"auth_save", "p_save", "ts_save"} /\ req[r].user = c
         THEN req[r].prof
         ELSE NoHandle

\* C9: requests overlap around midnight.  The save of a daily reset that
\* lands on a record another request has already reset for that day erases
\* none of the minutes recorded since.
C9_ResetNotRepeated ==
    [][\A r \in Reqs, c \in Children :
          (/\ ResetPending(r, c).dirty # {}
           /\ req'[r] # req[r]
           /\ profile[c].lastTimeReset = ResetPending(r, c).doc.lastTimeReset) =>
              profile'[c].timeUsedToday >= profile[c].timeUsedToday]_vars

\* timeLimitMinutes - timeUsedToday of the stored record after the daily
\* reset check
RemainingToday(c) ==
    profile[c].timeLimitMinutes
        - (IF NeedsReset(profile[c], today) THEN 0 ELSE profile[c].timeUsedToday)

\* C10: storage operations may fail.  A start request answered 201 has
\* created a session of an active game that suits the child's age group
\* while the child had time remaining; a start request answered otherwise has
\* created no session.
C10_StartOnlyWhenAllowed ==
    \A r \in Reqs :
        Answered(r, "start") =>
            IF req[r].resp.status = 201
            THEN /\ Len(sessions) = Len(snap.sessions) + 1
                 /\ games[req[r].arg.game].isActive
                 /\ AgeAllowed(games[req[r].arg.game], profile[req[r].user])
                 /\ RemainingToday(req[r].user) > 0
            ELSE sessions = snap.sessions

\* C11: requests handled one after the other, storage never failing.  The
\* completion of an open session is answered 200 and adds the session's
\* minutes to timeUsedToday in full, over the limit as well; a start request
\* sent while timeLimitMinutes - timeUsedToday <= 0 is answered 403 and
\* creates no session, and a start request for an active game of the child's
\* age group sent while time remains is answered 201.
C11_NoClampGateAtStart ==
    \A r \in Reqs :
        nFail = 0 =>
            /\ (/\ Answered(r, "complete") /\ OwnSession(r)
                /\ ~snap.sessions[req[r].arg.sid].isCompleted) =>
                    /\ req[r].resp.status = 200
                    /\ profile[req[r].user].timeUsedToday =
                          UsedBefore(r) + req[r].resp.durationMinutes
            /\ (Answered(r, "start") /\ RemainingToday(req[r].user) <= 0) =>
                    /\ req[r].resp.status = 403
                    /\ sessions = snap.sessions
            /\ (/\ Answered(r, "start") /\ RemainingToday(req[r].user) > 0
                /\ games[req[r].arg.game].isActive
                /\ AgeAllowed(games[req[r].arg.game], profile[req[r].user])) =>
                    req[r].resp.status = 201

\* a start request has been refused after a completion took timeUsedToday
\* over the default limit
C11_RefusedOverLimit ==
    \E r \in Reqs :
        /\ Answered(r, "start") /\ req[r].resp.status = 403
        /\ nFail = 0 /\ nReqs = 2
        /\ Len(usageLog) = 2
        /\ profile[req[r].user].timeLimitMinutes = DefaultTimeLimit
        /\ profile[req[r].user].timeUsedToday > DefaultTimeLimit

\* the stored fields of a child's record other than those in fs
SameBut(after, before, fs) ==
    \A f \in (DOMAIN before) \ (fs \cup {"extended"}) : after[f] = before[f]

C13_ExtensionGranted ==
    \A r \in Reqs :
        (Answered(r, "g_add") /\ nFail = 0) =>
            LET c == req[r].arg.child
                m == req[r].arg.minutes
            IN IF m \in 5..60
               THEN /\ req[r].resp.status = 200
                    /\ profile[c].timeLimitMinutes =
                          snap.profile[c].timeLimitMinutes + m
                    /\ req[r].resp.timeLimitMinutes = profile[c].timeLimitMinutes
                    /\ SameBut(profile[c], snap.profile[c], {"timeLimitMinutes"})
               ELSE /\ req[r].resp.status = 400
                    /\ profile = snap.profile

\* C14: a limit raised by add-time is in force only on the day it was
\* granted: no record that a daily reset has moved to a later day still
\* carries the raised limit.
C14_ExtensionEndsAtReset ==
    \A c \in Children :
        profile[c].extended # -1 =>
            profile[c].lastTimeReset <= profile[c].extended

\* C15: in every state each child's timeLimitMinutes lies in 15..240 and
\* timeUsedToday is not negative.
C15_LimitInRange ==
    \A c \in Children :
        /\ profile[c].timeLimitMinutes \in 15..240
        /\ profile[c].timeUsedToday >= 0

\* an add-time request that would have taken the limit over 240 has been
\* refused by the validator
C15_ExtensionOverMaxRefused ==
    \E r \in Reqs :
        /\ Answered(r, "g_add") /\ req[r].resp.status = 500
        /\ nFail = 0
        /\ profile[req[r].arg.child].timeLimitMinutes = MaxTimeLimit

\* ---- alerts raised from chat messages
\* the alerts raised for the i-th stored message
AlertsFor(i) == {a \in 1..Len(alerts) : alerts[a].message = i}
NotificationsFor(a) == {n \in 1..Len(notifs) : notifs[n].alertId = a}

\* the severity no match of the scan exceeds
TopSeverity(threats) ==
    CHOOSE s \in {threats[k].severity : k \in 1..Len(threats)} :
        \A k \in 1..Len(threats) :
            SeverityOrder(threats[k].severity) <= SeverityOrder(s)

\* the alert a flagged message raises, as far as the alert itself goes
AlertMatches(i, a) ==
    LET threats == CheckContent(dictionary, messages[i].content)
    IN /\ alerts[a].childId = messages[i].senderId
       /\ alerts[a].severity = TopSeverity(threats)
       /\ alerts[a].alertType = AlertTypeOf(threats[1].category)
       /\ alerts[a].triggerKeyword = threats[1].keyword

\* C16: a stored chat message that matches an active keyword has exactly
\* one alert, for its sender, with the highest severity among the matches,
\* the alert type of the first match's category and the first match's
\* keyword, and exactly one notification referencing that alert when the
\* sender has a linked guardian, none when it has not; a message with no
\* match has no alert.
C16_AlertAndNotification ==
    \A i \in 1..Len(messages) :
        IF Len(CheckContent(dictionary, messages[i].content)) = 0
        THEN AlertsFor(i) = {}
        ELSE /\ Cardinality(AlertsFor(i)) = 1
             /\ \A a \in AlertsFor(i) :
                   /\ AlertMatches(i, a)
                   /\ Cardinality(NotificationsFor(a)) =
                         IF GuardianOf(messages[i].senderId) = "nobody"
                         THEN 0 ELSE 1

\* ---- resolving alerts
\* request r, answered, asked to resolve a stored alert of a child linked to
\* its guardian, by the resolve route or by add-time with an alertId
ResolvedVia(r) ==
    /\ req[r].pc = "done"
    /\ req[r].arg.alert \in 1..Len(snap.alerts)
    /\ snap.alerts[req[r].arg.alert].childId \in LinkedChildren(req[r].user)
    /\ \/ req[r].op = "g_resolve"
       \/ req[r].op = "g_add" /\ req[r].resp.status = 200

\* C17: the first resolve of an alert succeeds and sets resolved,
\* resolvedAt and resolvedBy; a resolve of an alert that was already
\* resolved is answered Conflict (409) and leaves resolvedAt and resolvedBy
\* as the first call set them, by the resolve route and by add-time alike.
C17_SecondResolveRefused ==
    \A r \in Reqs :
        ResolvedVia(r) =>
            LET id == req[r].arg.alert
            IN IF snap.alerts[id].resolved
               THEN /\ alerts[id].resolvedAt = snap.alerts[id].resolvedAt
                    /\ alerts[id].resolvedBy = snap.alerts[id].resolvedBy
                    /\ req[r].op = "g_resolve" => req[r].resp.status = 409
               ELSE /\ req[r].resp.status = 200
                    /\ alerts[id].resolved
                    /\ alerts[id].resolvedAt # -1
                    /\ alerts[id].resolvedBy = req[r].user

\* C18: an alert is resolved only by a guardian linked to the alert's own
\* child: whatever the guardians' requests, add-time with the alertId of
\* another child's alert included, every resolved alert is of a child in
\* the linkedChildren of the guardian who resolved it.
C18_ResolvedByLinkedGuardian ==
    \A id \in 1..Len(alerts) :
        alerts[id].resolved =>
            alerts[id].childId \in LinkedChildren(alerts[id].resolvedBy)

ResolutionSet(alert) == alert.resolvedAt # -1 /\ alert.resolvedBy # "nobody"

\* C19: in every state every resolved alert has resolvedAt and resolvedBy
\* set, and no step makes a resolved alert unresolved or clears its
\* resolvedAt or resolvedBy.
C19_ResolvedStaysSet ==
    [][/\ \A id \in 1..Len(alerts') :
             alerts'[id].resolved => ResolutionSet(alerts'[id])
       /\ \A id \in 1..Len(alerts) :
             alerts[id].resolved =>
                 alerts'[id].resolved /\ ResolutionSet(alerts'[id])]_vars

\* an alert that was resolved before the request arrived has been resolved
\* again by it
C19_ResolvedAgain ==
    \E r \in Reqs :
        /\ ResolvedVia(r)
        /\ req[r].resp.status = 200
        /\ snap.alerts[req[r].arg.alert].resolved
        /\ alerts[req[r].arg.alert].resolved
        /\ alerts[req[r].arg.alert].resolvedAt >
               snap.alerts[req[r].arg.alert].resolvedAt

\* ---- the scan of a text
\* the same letter, in either case
SameLetter(a, b) == LowerChar(a) = LowerChar(b)

\* word occurs in text as a substring, whatever the case of the letters
OccursIn(word, text) ==
    \E i \in 1..Len(text) :
        /\ i + Len(word) - 1 <= Len(text)
        /\ \A j \in 1..Len(word) : SameLetter(text[i + j - 1], word[j])

\* C20: the scan of a text returns one match {keyword, severity, category}
\* for every active dictionary entry whose keyword occurs in the text as a
\* substring, compared case-insensitively, and nothing else: no match for
\* a deactivated entry, and every keyword of a text that holds several.
C20_ScanFindsActiveKeywords ==
    chat.pc \in {"alert", "store"} =>
        LET wanted == {e \in 1..Len(dictionary) :
                          /\ dictionary[e].isActive
                          /\ OccursIn(dictionary[e].keyword, chat.content)}
            Found(e, k) ==
                /\ chat.threats[k].keyword = dictionary[e].keyword
                /\ chat.threats[k].severity = dictionary[e].severity
                /\ chat.threats[k].category = dictionary[e].category
        IN /\ Len(chat.threats) = Cardinality(wanted)
           /\ \A e \in wanted : \E k \in 1..Len(chat.threats) : Found(e, k)
           /\ \A k \in 1..Len(chat.threats) : \E e \in wanted : Found(e, k)

\* a text with capital letters that holds two active keywords was scanned
C20_TwoKeywordsFound ==
    /\ chat.pc = "alert"
    /\ chat.content # ToLowerCase(chat.content)
    /\ Len(chat.threats) = 2
    /\ chat.threats[1].keyword # chat.threats[2].keyword

\* ---- the dictionary
\* C21: a keyword is stored lowercased and trimmed; adding a keyword whose
\* normalized form is already stored, active or deactivated, is refused
\* (400, duplicate) and leaves the dictionary unchanged; in every state no
\* two entries have the same normalized keyword.
C21_KeywordsUnique ==
    [][/\ \A i, j \in 1..Len(dictionary') :
             Trim(ToLowerCase(dictionary'[i].keyword)) =
                 Trim(ToLowerCase(dictionary'[j].keyword)) => i = j
       /\ \A r \in Reqs :
             (req[r].pc = "a_add" /\ req'[r].pc # "a_add" /\ nFail' = nFail) =>
                 LET keyword == Trim(ToLowerCase(req[r].arg.keyword))
                 IN IF \E i \in 1..Len(dictionary) :
                          dictionary[i].keyword = keyword
                    THEN /\ req'[r].resp.status = 400
                         /\ dictionary' = dictionary
                    ELSE req'[r].pc = "a_add_log" =>
                         /\ Len(dictionary') = Len(dictionary) + 1
                         /\ dictionary'[Len(dictionary')].keyword = keyword
                         /\ SubSeq(dictionary', 1, Len(dictionary)) =
                                dictionary]_vars

\* a keyword of a deactivated entry was sent again, in capitals and with
\* spaces around it, and was refused
C21_DuplicateOfDeactivatedRefused ==
    \E r \in Reqs :
        /\ Answered(r, "a_add")
        /\ req[r].resp.status = 400
        /\ req[r].arg.severity # "none"
        /\ req[r].arg.keyword # Trim(ToLowerCase(req[r].arg.keyword))
        /\ \E i \in 1..Len(dictionary) :
              /\ ~dictionary[i].isActive
              /\ dictionary[i].keyword = Trim(ToLowerCase(req[r].arg.keyword))

IsExtensionAlert(alert, c) ==
    /\ alert.childId = c
    /\ alert.severity = "Low"
    /\ alert.alertType = "TimeExtensionRequest"
    /\ alert.triggerKeyword = <<>>
    /\ ~alert.resolved
    /\ ~alert.removed

\* C23: a time-extension request with minutes in [5,60] creates exactly
\* one unresolved alert for the child, of severity Low and type
\* TimeExtensionRequest with no trigger keyword, and one notification for
\* it when the child has a linked guardian; with minutes outside [5,60] it
\* is refused and creates no alert and no notification.
C23_ExtensionRequestRaised ==
    [][\A r \in Reqs :
          (req[r].pc = "x_create" /\ req'[r].pc = "done") =>
              IF req[r].arg.minutes \in MinExtraMinutes..MaxExtraMinutes
              THEN /\ req'[r].resp.status = 200
                   /\ Len(alerts') = Len(alerts) + 1
                   /\ SubSeq(alerts', 1, Len(alerts)) = alerts
                   /\ IsExtensionAlert(alerts'[Len(alerts')], req[r].user)
                   /\ Cardinality({n \in 1..Len(notifs') :
                           notifs'[n].alertId = Len(alerts')}) =
                         IF GuardianOf(req[r].user) = "nobody" THEN 0 ELSE 1
              ELSE /\ req'[r].resp.status = 400
                   /\ alerts' = alerts
                   /\ notifs' = notifs]_vars

\* C24: marking a notification as read is idempotent: marking one that is
\* already read succeeds and leaves isRead and readAt as the first marking
\* left them.
C24_MarkReadIdempotent ==
    [][\A r \in Reqs :
          (/\ req[r].pc = "g_read_save"
           /\ req'[r].pc = "done"
           /\ notifs[req[r].arg.entry].isRead) =>
              /\ req'[r].resp.status = 200
              /\ notifs'[req[r].arg.entry].isRead
              /\ notifs'[req[r].arg.entry].readAt =
                    notifs[req[r].arg.entry].readAt]_vars

\* ---- retention
\* C25: every alert expires 90 days after its creation; resolving an alert
\* does not change expiresAt; a sweep that runs once the time has passed
\* expiresAt deletes the alert, resolved or not; a deleted alert stays
\* deleted and a request for it is answered 404.
C25_RetentionOfAlerts ==
    [][/\ \A id \in 1..Len(alerts') :
             alerts'[id].expiresAt =
                 alerts'[id].createdAt
                     + RetentionDays * MinutesPerDay * TicksPerMinute
       /\ \A id \in 1..Len(alerts) :
             /\ alerts'[id].expiresAt = alerts[id].expiresAt
             /\ alerts[id].removed => alerts'[id] = alerts[id]
       /\ Sweep => \A id \in 1..Len(alerts) :
                       alerts[id].expiresAt < now => alerts'[id].removed
       /\ \A r \in SeqReqs :
             (/\ req[r].pc = "g_resolve"
              /\ req'[r].pc # "g_resolve"
              /\ req[r].arg.alert \in 1..Len(alerts)
              /\ alerts[req[r].arg.alert].removed) =>
                 req'[r].resp.status = 404]_vars

\* a resolved alert was deleted after its expiry, and the guardian's
\* request for it was answered 404
C25_ResolvedAlertDeleted ==
    \E r \in SeqReqs :
        /\ Answered(r, "g_resolve")
        /\ req[r].resp.status = 404
        /\ req[r].arg.alert \in 1..Len(alerts)
        /\ alerts[req[r].arg.alert].removed
        /\ alerts[req[r].arg.alert].resolved
        /\ now > alerts[req[r].arg.alert].expiresAt

\* ---- refused completions
\* a profile as the daily reset leaves it on the given day
AsOfDay(doc, day) ==
    IF NeedsReset(doc, day)
    THEN [doc EXCEPT !.timeUsedToday = 0, !.lastTimeReset = day]
    ELSE doc

\* nothing stored has changed since the request arrived, but for the daily
\* reset of the time records
Untouched ==
    /\ sessions = snap.sessions
    /\ ledger = snap.ledger
    /\ usageLog = snap.usageLog
    /\ games = snap.games
    /\ \A c \in DOMAIN profile :
          AsOfDay(profile[c], today) = AsOfDay(snap.profile[c], today)

\* C26: a completion is answered 404 when no session has the id and 403
\* when the session belongs to another child; in both cases, and when the
\* session was already completed, the sessions, every child's progress and
\* time record, the points ledger, the usage log and the game statistics
\* are left as they were.
C26_RefusedCompletionChangesNothing ==
    \A r \in SeqReqs :
        Answered(r, "complete") =>
            LET sid == req[r].arg.sid
                failed == req[r].resp.status = 500
            IN IF sid \notin 1..Len(snap.sessions)
               THEN Untouched /\ (failed \/ req[r].resp.status = 404)
               ELSE IF snap.sessions[sid].childId # req[r].user
               THEN Untouched /\ (failed \/ req[r].resp.status = 403)
               ELSE snap.sessions[sid].isCompleted => Untouched

\* the child asked to complete an open session of another child on a new
\* day and was answered 403
C26_ForeignSessionRefused ==
    \E r \in SeqReqs :
        /\ Answered(r, "complete")
        /\ req[r].resp.status = 403
        /\ req[r].arg.sid \in 1..Len(sessions)
        /\ sessions[req[r].arg.sid].childId # req[r].user
        /\ ~sessions[req[r].arg.sid].isCompleted
        /\ req[r].didReset

\* ---- the minutes of a session
\* the elapsed ticks rounded up to the next whole minute
MinutesRoundedUp(ticks) ==
    CHOOSE m \in 0..ticks :
        /\ m * TicksPerMinute >= ticks
        /\ \A k \in 0..ticks : k * TicksPerMinute >= ticks => k >= m

\* C27: the duration a completion debits is the time from the session's
\* start to its completion rounded up to the next whole minute, whatever
\* the elapsed time.
C27_DurationRoundedUp ==
    \A i \in 1..Len(usageLog) :
        LET s == sessions[usageLog[i].sid]
        IN usageLog[i].durationMinutes =
               MinutesRoundedUp(s.endTime - s.startTime)

\* ---- achievements
\* C28: a child's achievements never hold the same badge twice, after any
\* completions, concurrent completions of two sessions of the child that
\* earn the same badge included.
C28_NoBadgeTwice ==
    \A c \in Children :
        \A i, j \in 1..Len(profile[c].achievements) :
            profile[c].achievements[i] = profile[c].achievements[j] => i = j

\* ---- play counts
CompletedOf(g) ==
    {sid \in 1..Len(sessions) :
        sessions[sid].isCompleted /\ sessions[sid].gameId = g}
CompletedBy(c) ==
    {sid \in 1..Len(sessions) :
        sessions[sid].isCompleted /\ sessions[sid].childId = c}

RECURSIVE SumScores(_)
SumScores(sids) ==
    IF sids = {} THEN 0
    ELSE LET sid == CHOOSE x \in sids : TRUE
         IN sessions[sid].scoreRaw + SumScores(sids \ {sid})

\* C29: once every completion has been answered, a game's totalPlays is
\* the number of completed sessions of the game, its average score is the
\* mean of their scores (each completion having moved it by
\* (average * plays + score) / (plays + 1)), and a child's totalGamesPlayed
\* is the number of the child's completed sessions.
C29_PlayCountsMatchSessions ==
    Quiet =>
        /\ \A g \in Games :
              /\ games[g].totalPlays = Cardinality(CompletedOf(g))
              /\ games[g].avgNum * Cardinality(CompletedOf(g)) =
                    games[g].avgDen * SumScores(CompletedOf(g))
        /\ \A c \in Children :
              profile[c].totalGamesPlayed = Cardinality(CompletedBy(c))

\* ---- allowed games
\* C30: while a guardian's non-empty allowedGames list is stored for a
\* child, a session the child starts is for a game of that list.
C30_StartOnlyAllowedGames ==
    \A r \in SeqReqs :
        (Answered(r, "start") /\ req[r].resp.status = 201) =>
            LET doc == profile[req[r].user]
            IN doc.allowedGames # {} =>
                  req[r].arg.game \in GamesListed(doc, games)

====
